---- MODULE Spec2Model ----
(***************************************************************************)
(* Model of the quagga-router operator: the Kubernetes helper              *)
(* (src/src/kubernetes.py) and the charm's event handlers                  *)
(* (src/src/charm.py).  Every handler is one atomic action: the operator   *)
(* framework processes one event to completion before the next.  Each      *)
(* action records in `ev` what the handler did (the client calls it sent,  *)
(* the exec calls it issued, what it raised) and in `prev` a summary of    *)
(* the handler that ran before it.                                         *)
(***************************************************************************)
EXTENDS Integers, Sequences, FiniteSets, TLC

VARIABLES
    nad,        \* the router-net NetworkAttachmentDefinition in the cluster
    sts,        \* the StatefulSet object in the cluster
    canConnect, \* whether the workload container answers (Container.can_connect)
    workload,   \* network state inside the workload container
    plan,       \* pebble layers of the workload container
    status,     \* unit status
    ev,         \* record of the operation handled last
    prev        \* summary of the operation handled before it

vars == <<nad, sts, canConnect, workload, plan, status, ev, prev>>

----------------------------------------------------------------------------
(* Bounds of the model *)

\* longest k8s.v1.cni.cncf.io/networks list a StatefulSet starts with
MaxInitNets == 1

\* the (interface name, gateway address) pairs a caller may pass: two
\* interfaces, and two addresses for one of them
MultusArgs ==
    {<<"eth1", "1.2.3.4/24">>, <<"eth1", "5.6.7.8/24">>, <<"eth2", "1.2.3.4/24">>}

\* capabilities that may be in a container's add-list
CapabilityNames == {"NET_ADMIN", "SYS_TIME"}

\* most rules the NAT table of the workload is let grow to
MaxNatRules == 2

\* longest routes list a relation-changed delivery carries
MaxRoutes == 2

\* the interface names and gateways a peer may send
PeerNames == {"eth1"}
PeerGateways == {"1.2.3.4/24", "5.6.7.8/24"}

\* the routes a peer may send
PeerRoutes ==
    {[network |-> "172.250.0.0/16", gateway |-> "192.168.250.3"],
     [network |-> "172.250.1.0/16", gateway |-> "192.168.250.4"]}

----------------------------------------------------------------------------
(* Program constants *)

NETWORK_ATTACHMENT_DEFINITION_NAME == "router-net"

MULTUS_KEY == "k8s.v1.cni.cncf.io/networks"

\* index of the workload container in spec.template.spec.containers
\* (Python index 1 is the second element)
WorkloadContainer == 2

----------------------------------------------------------------------------
(* The cluster objects *)

\* Mutant of Annotation: the name and the interface the wrong way round.
Annotation_swapped(interface_name, ips) ==
    [name |-> interface_name,
     interface |-> NETWORK_ATTACHMENT_DEFINITION_NAME,
     ips |-> ips]

\* The annotation dict built by add_multus_annotation_to_statefulset.
Annotation(interface_name, ips) ==
    [name |-> NETWORK_ATTACHMENT_DEFINITION_NAME,
     interface |-> interface_name,
     ips |-> ips]

Descriptors == {Annotation(a[1], <<a[2]>>) : a \in MultusArgs}

\* Mutant of Contains: entries are compared by interface alone.
Contains_by_interface(list, x) ==
    \E k \in 1..Len(list) : list[k].interface = x.interface

\* x in list (Python's structural `in`)
Contains(list, x) == \E k \in 1..Len(list) : list[k] = x

NoDuplicates(list) == \A j, k \in 1..Len(list) : list[j] = list[k] => j = k

\* A container's securityContext.  hasSC = FALSE: securityContext is None.
\* hasCaps = FALSE: securityContext.capabilities (or its add) is None.
\* privileged = FALSE also stands for privileged = None.
SecurityContext(hasSC, privileged, hasCaps, add) ==
    [hasSC |-> hasSC, privileged |-> privileged, hasCaps |-> hasCaps, add |-> add]

NoSecurityContext == SecurityContext(FALSE, FALSE, FALSE, {})

SecurityContexts ==
    {NoSecurityContext}
    \cup {SecurityContext(TRUE, p, FALSE, {}) : p \in BOOLEAN}
    \cup {SecurityContext(TRUE, p, TRUE, a) : p \in BOOLEAN, a \in SUBSET CapabilityNames}

\* The charm container (index 0) as Juju creates it.
CharmContainer == SecurityContext(TRUE, FALSE, FALSE, {})

\* spec.template.metadata.annotations.  hasMap = FALSE: annotations is None.
\* hasKey: the k8s.v1.cni.cncf.io/networks key is in the map; nets: its list.
Annotations(hasMap, hasKey, nets) ==
    [hasMap |-> hasMap, hasKey |-> hasKey, nets |-> nets]

NoAnnotations == Annotations(FALSE, FALSE, <<>>)

\* The StatefulSet.  hasSpec = FALSE: the object has no spec.
StatefulSet(hasSpec, containers, annotations) ==
    [hasSpec |-> hasSpec, containers |-> containers, annotations |-> annotations]

NoSpecStatefulSet == StatefulSet(FALSE, <<>>, NoAnnotations)

RECURSIVE SeqsUpTo(_, _)
\* the sequences over S of length at most n
SeqsUpTo(S, n) ==
    IF n = 0 THEN {<<>>}
    ELSE LET shorter == SeqsUpTo(S, n - 1)
         IN  shorter \cup {Append(s, x) : s \in shorter, x \in S}

InitNets == {s \in SeqsUpTo(Descriptors, MaxInitNets) : NoDuplicates(s)}

InitAnnotations ==
    {NoAnnotations, Annotations(TRUE, FALSE, <<>>)}
    \cup {Annotations(TRUE, TRUE, n) : n \in InitNets}

InitStatefulSets ==
    {NoSpecStatefulSet}
    \cup {StatefulSet(TRUE, <<CharmContainer>>, a) : a \in InitAnnotations}
    \cup {StatefulSet(TRUE, <<CharmContainer, c>>, a) :
            c \in SecurityContexts, a \in InitAnnotations}

----------------------------------------------------------------------------
(* Relation data and the workload *)

Missing == "<missing>"

\* Relation data: the keys name, gateway and routes, each possibly missing.
RelationData(name, gateway, hasRoutes, routes) ==
    [name |-> name, gateway |-> gateway, hasRoutes |-> hasRoutes, routes |-> routes]

NoData == RelationData(Missing, Missing, FALSE, <<>>)

InitWorkload == [ipForward |-> FALSE, natRules |-> 0, routes |-> {}]

----------------------------------------------------------------------------
(* The resource client: what the API server answers *)

\* The answers client.get can give for the NetworkAttachmentDefinition:
\* the object, an ApiError with reason NotFound, an ApiError with another
\* reason, an httpx.HTTPStatusError with status 404 (the resource kind is not
\* served: Multus is not installed) or with another status.
LookupOutcomes(n) ==
    {"ApiOther", "HttpOther"}
    \cup (CASE n = "Present" -> {"Found"}
            [] n = "Absent"  -> {"ApiNotFound"}
            [] n = "NoKind"  -> {"Http404"})

\* client.create of the NetworkAttachmentDefinition: created when absent,
\* refused (the client raises) when it exists or its kind is not served.
ClientCreate(n) ==
    IF n = "Absent" THEN [nad |-> "Present", raised |-> FALSE]
    ELSE [nad |-> n, raised |-> TRUE]

\* client.delete of the NetworkAttachmentDefinition.
ClientDelete(n) ==
    IF n = "Present" THEN [nad |-> "Absent", raised |-> FALSE]
    ELSE [nad |-> n, raised |-> TRUE]

\* Mutant of MergePatch: the stored networks list keeps the entries the
\* patch does not carry.
MergePatch_keeping_entries(cur, obj) ==
    IF ~obj.hasSpec THEN cur
    ELSE StatefulSet(TRUE, obj.containers,
            IF obj.annotations.hasKey
            THEN [obj.annotations EXCEPT !.nets =
                    @ \o SelectSeq(cur.annotations.nets,
                                   LAMBDA d : ~Contains(obj.annotations.nets, d))]
            ELSE IF cur.hasSpec THEN cur.annotations
            ELSE obj.annotations)

\* client.patch with PatchType.MERGE: the fields of obj are merged into the
\* stored object; a list (containers, the networks list) replaces the stored
\* list wholesale, a field obj does not carry is left as stored.
MergePatch(cur, obj) ==
    IF ~obj.hasSpec THEN cur
    ELSE StatefulSet(TRUE, obj.containers,
                     IF obj.annotations.hasKey THEN obj.annotations
                     ELSE IF cur.hasSpec THEN cur.annotations
                     ELSE obj.annotations)

----------------------------------------------------------------------------
(* src/src/kubernetes.py: the operations of class Kubernetes.  Each is an   *)
(* operator from what its client.get calls return to what it does: the      *)
(* client calls it sends, in order, the objects it sends in patch calls,    *)
(* and whether it ends by raising.                                          *)

Result(calls, raised, patches) ==
    [calls |-> calls, raised |-> raised, patches |-> patches]

\* Mutant of network_attachment_definition_created: a successful get does
\* not return True.
network_attachment_definition_created_never_true(outcome) ==
    IF outcome = "Http404" THEN "Raise" ELSE "False"

\* "True" / "False": the value returned; "Raise": an exception leaves it.
network_attachment_definition_created(outcome) ==
    CASE outcome = "Found"       -> "True"
      [] outcome = "ApiNotFound" -> "False"
      [] outcome = "ApiOther"    -> "False"   \* no branch taken: falls to the last return
      [] outcome = "Http404"     -> "Raise"
      [] outcome = "HttpOther"   -> "False"

create_network_attachment_definition(outcome) ==
    LET created == network_attachment_definition_created(outcome)
    IN  CASE created = "Raise" -> Result(<<"get_nad">>, TRUE, <<>>)
          [] created = "True"  -> Result(<<"get_nad">>, FALSE, <<>>)
          [] created = "False" -> Result(<<"get_nad", "create_nad">>, FALSE, <<>>)

\* Mutant of delete_network_attachment_definition: the delete is sent
\* whatever the lookup reports.
delete_network_attachment_definition_unchecked(outcome) ==
    LET created == network_attachment_definition_created(outcome)
    IN  IF created = "Raise" THEN Result(<<"get_nad">>, TRUE, <<>>)
        ELSE Result(<<"get_nad", "delete_nad">>, FALSE, <<>>)

\* Mutant of delete_network_attachment_definition: the StatefulSet is
\* patched back after the delete.
delete_network_attachment_definition_reverting(outcome) ==
    LET created == network_attachment_definition_created(outcome)
        plain == StatefulSet(TRUE,
                             <<CharmContainer, SecurityContext(TRUE, FALSE, FALSE, {})>>,
                             Annotations(TRUE, TRUE, <<>>))
    IN  CASE created = "Raise" -> Result(<<"get_nad">>, TRUE, <<>>)
          [] created = "True"  ->
                Result(<<"get_nad", "delete_nad", "get_sts", "patch_sts">>, FALSE, <<plain>>)
          [] created = "False" -> Result(<<"get_nad">>, FALSE, <<>>)

delete_network_attachment_definition(outcome) ==
    LET created == network_attachment_definition_created(outcome)
    IN  CASE created = "Raise" -> Result(<<"get_nad">>, TRUE, <<>>)
          [] created = "True"  -> Result(<<"get_nad", "delete_nad">>, FALSE, <<>>)
          [] created = "False" -> Result(<<"get_nad">>, FALSE, <<>>)

\* Mutant of security_context_is_patched: a missing workload container is
\* read as nothing to do.
security_context_is_patched_lenient(s) ==
    IF ~s.hasSpec THEN "False"
    ELSE IF Len(s.containers) < WorkloadContainer THEN "True"
    ELSE LET sc == s.containers[WorkloadContainer]
         IN  IF ~sc.hasSC THEN "Raise"
             ELSE IF ~sc.privileged THEN "False"
             ELSE IF ~sc.hasCaps THEN "Raise"
             ELSE IF "NET_ADMIN" \notin sc.add THEN "False"
             ELSE "True"

\* s: the StatefulSet returned by the method's client.get
security_context_is_patched(s) ==
    IF ~s.hasSpec THEN "False"
    ELSE IF Len(s.containers) < WorkloadContainer THEN "Raise"   \* IndexError
    ELSE LET sc == s.containers[WorkloadContainer]
         IN  IF ~sc.hasSC THEN "Raise"                           \* None.privileged
             ELSE IF ~sc.privileged THEN "False"
             ELSE IF ~sc.hasCaps THEN "Raise"                    \* None.add / in None
             ELSE IF "NET_ADMIN" \notin sc.add THEN "False"
             ELSE "True"

\* Mutant of add_security_context_to_statefulset: NET_ADMIN is added to the
\* capabilities the container has.
add_security_context_to_statefulset_merging(checked, fetched) ==
    LET patched == security_context_is_patched(checked)
    IN  CASE patched = "True"  -> Result(<<"get_sts">>, FALSE, <<>>)
          [] patched = "Raise" -> Result(<<"get_sts">>, TRUE, <<>>)
          [] patched = "False" ->
               IF ~fetched.hasSpec
                    \/ Len(fetched.containers) < WorkloadContainer
                    \/ ~fetched.containers[WorkloadContainer].hasSC
               THEN Result(<<"get_sts", "get_sts">>, TRUE, <<>>)
               ELSE LET obj == [fetched EXCEPT !.containers[WorkloadContainer] =
                                    SecurityContext(TRUE, TRUE, TRUE,
                                                    @.add \cup {"NET_ADMIN"})]
                    IN  Result(<<"get_sts", "get_sts", "patch_sts">>, FALSE, <<obj>>)

\* checked: the StatefulSet read by security_context_is_patched;
\* fetched: the StatefulSet returned by the method's own client.get
add_security_context_to_statefulset(checked, fetched) ==
    LET patched == security_context_is_patched(checked)
    IN  CASE patched = "True"  -> Result(<<"get_sts">>, FALSE, <<>>)
          [] patched = "Raise" -> Result(<<"get_sts">>, TRUE, <<>>)
          [] patched = "False" ->
               IF ~fetched.hasSpec
                    \/ Len(fetched.containers) < WorkloadContainer
                    \/ ~fetched.containers[WorkloadContainer].hasSC
               THEN Result(<<"get_sts", "get_sts">>, TRUE, <<>>)
               ELSE LET obj == [fetched EXCEPT !.containers[WorkloadContainer] =
                                    SecurityContext(TRUE, TRUE, TRUE, {"NET_ADMIN"})]
                    IN  Result(<<"get_sts", "get_sts", "patch_sts">>, FALSE, <<obj>>)

\* Mutant of annotation_is_added_to_statefulset: the list is not searched.
annotation_is_added_list_not_searched(s, annotation) ==
    IF ~s.hasSpec THEN "False"
    ELSE IF ~s.annotations.hasMap THEN "Raise"
    ELSE "False"

\* s: the StatefulSet returned by the method's client.get
annotation_is_added_to_statefulset(s, annotation) ==
    IF ~s.hasSpec THEN "False"
    ELSE IF ~s.annotations.hasMap THEN "Raise"                   \* `in` on None
    ELSE IF ~s.annotations.hasKey THEN "False"
    ELSE IF ~Contains(s.annotations.nets, annotation) THEN "False"
    ELSE "True"

\* Mutant of add_multus_annotation_to_statefulset: the copy read by the
\* check is the one patched.
add_multus_annotation_to_statefulset_stale(checked, fetched, interface_name, ips) ==
    LET annotation == Annotation(interface_name, ips)
        added == annotation_is_added_to_statefulset(checked, annotation)
    IN  CASE added = "True"  -> Result(<<"get_sts">>, FALSE, <<>>)
          [] added = "Raise" -> Result(<<"get_sts">>, TRUE, <<>>)
          [] added = "False" ->
               IF ~checked.hasSpec
                    \/ ~checked.annotations.hasMap
                    \/ ~checked.annotations.hasKey
               THEN Result(<<"get_sts", "get_sts">>, TRUE, <<>>)
               ELSE LET obj == [checked EXCEPT !.annotations.nets =
                                    Append(checked.annotations.nets, annotation)]
                    IN  Result(<<"get_sts", "get_sts", "patch_sts">>, FALSE, <<obj>>)

\* checked: the StatefulSet read by annotation_is_added_to_statefulset;
\* fetched: the StatefulSet returned by the method's own client.get
add_multus_annotation_to_statefulset(checked, fetched, interface_name, ips) ==
    LET annotation == Annotation(interface_name, ips)
        added == annotation_is_added_to_statefulset(checked, annotation)
    IN  CASE added = "True"  -> Result(<<"get_sts">>, FALSE, <<>>)
          [] added = "Raise" -> Result(<<"get_sts">>, TRUE, <<>>)
          [] added = "False" ->
               IF ~fetched.hasSpec
                    \/ ~fetched.annotations.hasMap               \* None[...]
                    \/ ~fetched.annotations.hasKey               \* KeyError
               THEN Result(<<"get_sts", "get_sts">>, TRUE, <<>>)
               ELSE LET obj == [fetched EXCEPT !.annotations.nets =
                                    Append(fetched.annotations.nets, annotation)]
                    IN  Result(<<"get_sts", "get_sts", "patch_sts">>, FALSE, <<obj>>)

----------------------------------------------------------------------------
(* src/src/charm.py: the workload container *)

\* The commands, each run as /bin/bash -c "<words>".
IP_FORWARD_CMD == <<"sysctl", "-w", "net.ipv4.ip_forward=1">>

NAT_CMD == <<"iptables", "-t", "nat", "-A", "POSTROUTING", "-o", "eth0", "-j", "MASQUERADE">>

RouteAdd(network, gateway) == <<"ip", "route", "add", network, "via", gateway>>

DEFAULT_ROUTE_CMD == RouteAdd("172.250.0.0/16", "192.168.250.3")

TRAP_CMD == <<"trap", ":", "TERM", "INT">>

BootstrapOrder == <<IP_FORWARD_CMD, NAT_CMD, DEFAULT_ROUTE_CMD, TRAP_CMD>>

Exec(command, ok) == [command |-> command, ok |-> ok]

Outcome(execs, raised) == [execs |-> execs, raised |-> raised]

\* Mutant of Run: the ExecError is logged and not raised again.
Run_swallowing(command, connected, ok) ==
    IF ~connected THEN [execs |-> <<>>, raised |-> TRUE]
    ELSE [execs |-> <<[command |-> command, ok |-> ok]>>, raised |-> FALSE]

\* Mutant of Run: the exec is issued without asking can_connect.
Run_unchecked(command, connected, ok) ==
    [execs |-> <<[command |-> command, ok |-> ok]>>, raised |-> ~ok]

\* One step method (_set_ip_forwarding, _set_ip_tables, _set_ip_route,
\* _trap_signals): raise if the container cannot be reached, else one exec,
\* whose ExecError (non-zero exit) is logged and raised again.
\* connected: what can_connect() answers; ok: the exec exits zero.
Run(command, connected, ok) ==
    IF ~connected THEN Outcome(<<>>, TRUE)
    ELSE Outcome(<<Exec(command, ok)>>, ~ok)

set_ip_forwarding(connected, ok) == Run(IP_FORWARD_CMD, connected, ok)

set_ip_tables(connected, ok) == Run(NAT_CMD, connected, ok)

set_ip_route(connected, ok) == Run(DEFAULT_ROUTE_CMD, connected, ok)

trap_signals(connected, ok) == Run(TRAP_CMD, connected, ok)

\* Mutant of Then: b runs whatever a did.
Then_regardless(a, b) ==
    Outcome(a.execs \o b.execs, a.raised \/ b.raised)

\* Statement sequencing: b runs only if a did not raise.
Then(a, b) ==
    IF a.raised THEN a ELSE Outcome(a.execs \o b.execs, b.raised)

\* Mutant of prepare_container: the NAT rule before IP forwarding.
prepare_container_reordered(up, ok) ==
    Then(Then(Then(set_ip_tables(up[1], ok[1]),
                   set_ip_forwarding(up[2], ok[2])),
              set_ip_route(up[3], ok[3])),
         trap_signals(up[4], ok[4]))

\* up[k], ok[k]: what can_connect() answers in step k, and whether its exec exits zero
prepare_container(up, ok) ==
    Then(Then(Then(set_ip_forwarding(up[1], ok[1]),
                   set_ip_tables(up[2], ok[2])),
              set_ip_route(up[3], ok[3])),
         trap_signals(up[4], ok[4]))

\* What a handler did: the exec calls it issued, whether it raised, whether
\* it deferred the event, the status it set ("none": left alone) and
\* whether it added the layer and replanned.
Handled(execs, raised, deferred, setStatus, addedLayer) ==
    [execs |-> execs, raised |-> raised, deferred |-> deferred,
     setStatus |-> setStatus, addedLayer |-> addedLayer]

\* Mutant of on_quagga_pebble_ready: no can_connect check of its own.
on_quagga_pebble_ready_unchecked(connected, up, ok) ==
    LET r == prepare_container([k \in 1..4 |-> connected /\ up[k]], ok)
    IN  IF r.raised THEN Handled(r.execs, TRUE, FALSE, "none", FALSE)
        ELSE Handled(r.execs, FALSE, FALSE, "active", TRUE)

\* Mutant of on_quagga_pebble_ready: the layer is added and the status set
\* before the container is prepared.
on_quagga_pebble_ready_layer_first(connected, up, ok) ==
    IF ~connected THEN Handled(<<>>, FALSE, TRUE, "waiting", FALSE)
    ELSE LET r == prepare_container(up, ok)
         IN  Handled(r.execs, r.raised, FALSE, "active", TRUE)

\* connected: what the handler's own can_connect() answers
on_quagga_pebble_ready(connected, up, ok) ==
    IF ~connected THEN Handled(<<>>, FALSE, TRUE, "waiting", FALSE)
    ELSE LET r == prepare_container(up, ok)
         IN  IF r.raised THEN Handled(r.execs, TRUE, FALSE, "none", FALSE)
             ELSE Handled(r.execs, FALSE, FALSE, "active", TRUE)

\* The layer returned by _pebble_layer.
pebble_layer ==
    [summary |-> "quagga layer",
     description |-> "pebble config layer for quagga",
     services |-> [quagga |-> [override |-> "replace",
                               startup |-> "enabled",
                               command |-> "sleep infinity"]]]

\* Container.add_layer(label, layer, combine=True): the layer replaces the
\* layer of the same label.
AddLayer(layers, label, layer) ==
    {l \in layers : l.label # label} \cup {[label |-> label, layer |-> layer]}

\* What a command that exits zero leaves in the workload's network state.
Effect(w, command) ==
    CASE command = IP_FORWARD_CMD -> [w EXCEPT !.ipForward = TRUE]
      [] command = NAT_CMD -> [w EXCEPT !.natRules = @ + 1]
      [] Len(command) = 6 /\ command[1] = "ip" ->
            [w EXCEPT !.routes = @ \cup {[network |-> command[4], gateway |-> command[6]]}]
      [] OTHER -> w

RECURSIVE ApplyExecs(_, _)
\* The workload after the exec calls `execs`; a command that exits non-zero
\* leaves it as it was.
ApplyExecs(w, execs) ==
    IF execs = <<>> THEN w
    ELSE ApplyExecs(IF Head(execs).ok THEN Effect(w, Head(execs).command) ELSE w,
                    Tail(execs))

----------------------------------------------------------------------------
(* What the cluster holds after an operation's calls *)

Sent(calls, c) == Cardinality({k \in 1..Len(calls) : calls[k] = c})

\* the NetworkAttachmentDefinition after the create / delete calls in `calls`
NadAfter(n, calls) ==
    IF Sent(calls, "create_nad") > 0 THEN ClientCreate(n).nad
    ELSE IF Sent(calls, "delete_nad") > 0 THEN ClientDelete(n).nad
    ELSE n

\* whether the client raised in a create / delete call of `calls`
ClientRaised(n, calls) ==
    \/ Sent(calls, "create_nad") > 0 /\ ClientCreate(n).raised
    \/ Sent(calls, "delete_nad") > 0 /\ ClientDelete(n).raised

\* the StatefulSet after the patch calls carrying `patches`
StsAfter(s, patches) ==
    IF patches = <<>> THEN s ELSE MergePatch(s, patches[1])

----------------------------------------------------------------------------
(* The relation-changed handler and the route applier *)

RECURSIVE apply_routes(_, _, _)
\* For each route from index k on, in order, one exec of
\* ip route add <network> via <gateway>; a failing exec ends the batch.
apply_routes(routes, ok, k) ==
    IF k > Len(routes) THEN Outcome(<<>>, FALSE)
    ELSE Then(Run(RouteAdd(routes[k].network, routes[k].gateway), TRUE, ok[k]),
              apply_routes(routes, ok, k + 1))

RouteLists == SeqsUpTo(PeerRoutes, MaxRoutes)

\* the arguments of a call of add_multus_annotation_to_statefulset
MultusCall(interface_name, ips) ==
    [called |-> TRUE, interface_name |-> interface_name, ips |-> ips]

NoMultusCall == [called |-> FALSE, interface_name |-> "", ips |-> <<>>]

\* Without name or gateway the delivery is skipped.  Otherwise the Multus
\* annotation is ensured with interface = name and ips = [gateway], and
\* then the routes (none when the key is missing) are applied.
\* ensured: the annotation call returned without raising; order: the client
\* calls and the exec calls ("exec") in the order they were made.
\* s: the StatefulSet in the cluster; ok[k]: the exec of route k exits zero
on_relation_changed(data, s, ok) ==
    IF data.name = Missing \/ data.gateway = Missing
    THEN [skipped |-> TRUE, multus |-> NoMultusCall, ensured |-> FALSE,
          calls |-> <<>>, patches |-> <<>>, execs |-> <<>>, raised |-> FALSE,
          order |-> <<>>]
    ELSE LET m == add_multus_annotation_to_statefulset(s, s, data.name, <<data.gateway>>)
             r == Then(Outcome(<<>>, m.raised),
                       apply_routes(IF data.hasRoutes THEN data.routes ELSE <<>>, ok, 1))
         IN  [skipped |-> FALSE, multus |-> MultusCall(data.name, <<data.gateway>>),
              ensured |-> ~m.raised,
              calls |-> m.calls, patches |-> m.patches,
              execs |-> r.execs, raised |-> r.raised,
              order |-> m.calls \o [k \in 1..Len(r.execs) |-> "exec"]]

----------------------------------------------------------------------------
(* The install handler *)

\* Mutant of on_install: the StatefulSet first.
on_install_reversed(outcome, n, s) ==
    LET b == add_security_context_to_statefulset(s, s)
        a == create_network_attachment_definition(outcome)
    IN  IF b.raised
        THEN [invoked |-> <<"add_security_context_to_statefulset">>,
              calls |-> b.calls, patches |-> b.patches, raised |-> TRUE]
        ELSE [invoked |-> <<"add_security_context_to_statefulset",
                            "create_network_attachment_definition">>,
              calls |-> b.calls \o a.calls, patches |-> b.patches,
              raised |-> a.raised \/ ClientRaised(n, a.calls)]

\* _on_install: create_network_attachment_definition(), then the patching of
\* the StatefulSet.  charm.py calls the latter patch_statefulset, a name
\* kubernetes.py does not have; it is taken to be
\* add_security_context_to_statefulset, the method the install test expects.
\* An exception in the first call ends the handler.
\* outcome: what the NetworkAttachmentDefinition get answers; n, s: the
\* NetworkAttachmentDefinition and the StatefulSet in the cluster;
\* invoked: the methods called, in order.
on_install(outcome, n, s) ==
    LET a == create_network_attachment_definition(outcome)
        b == add_security_context_to_statefulset(s, s)
    IN  IF a.raised \/ ClientRaised(n, a.calls)
        THEN [invoked |-> <<"create_network_attachment_definition">>,
              calls |-> a.calls, patches |-> <<>>, raised |-> TRUE]
        ELSE [invoked |-> <<"create_network_attachment_definition",
                            "add_security_context_to_statefulset">>,
              calls |-> a.calls \o b.calls, patches |-> b.patches,
              raised |-> b.raised]

----------------------------------------------------------------------------
(* The record of an operation *)

\* op: the operation; lookup: what the NetworkAttachmentDefinition get
\* answered; multus: the add_multus_annotation_to_statefulset call made;
\* data: the relation data delivered; calls: the client calls sent, in
\* order; patches: the objects sent in patch calls; execs: the exec calls
\* issued, in order, each with whether it exited zero; raised: the operation
\* ended with an exception; connected: what the handler's first
\* can_connect check saw; lostStep: the bootstrap step whose can_connect
\* check found the container gone (0: none did); ensured, order: see on_relation_changed;
\* invoked: see on_install; phase, checked, fetched, patchedOver, patchedTo:
\* see the ensure operations taken one client call at a time, below; deferred, skipped, setStatus, addedLayer: what
\* the handler did; pre*: the state the operation started in.
NoEvent ==
    [op |-> "none", lookup |-> "none", multus |-> NoMultusCall, data |-> NoData,
     ensured |-> FALSE, order |-> <<>>, invoked |-> <<>>,
     phase |-> "done", checked |-> NoSpecStatefulSet, fetched |-> NoSpecStatefulSet,
     patchedOver |-> NoSpecStatefulSet, patchedTo |-> NoSpecStatefulSet,
     lostStep |-> 0,
     calls |-> <<>>, patches |-> <<>>, execs |-> <<>>, raised |-> FALSE,
     connected |-> TRUE, deferred |-> FALSE, skipped |-> FALSE,
     setStatus |-> "none", addedLayer |-> FALSE,
     preNad |-> "Absent", preSts |-> NoSpecStatefulSet, preWorkload |-> InitWorkload]

Summary(e) ==
    [op |-> e.op, lookup |-> e.lookup, calls |-> e.calls, raised |-> e.raised,
     deferred |-> e.deferred]

\* the record of an operation started in the current state
Started(op) ==
    [NoEvent EXCEPT !.op = op, !.preNad = nad, !.preSts = sts,
                    !.preWorkload = workload]

----------------------------------------------------------------------------
(* Actions *)

Init ==
    /\ nad \in {"NoKind", "Absent", "Present"}
    /\ sts \in InitStatefulSets
    /\ canConnect = TRUE
    /\ workload = InitWorkload
    /\ plan = {}
    /\ status = "unknown"
    /\ ev = NoEvent
    /\ prev = Summary(NoEvent)

\* Kubernetes.create_network_attachment_definition()
CreateNetworkAttachmentDefinition ==
    \E outcome \in LookupOutcomes(nad) :
        \E r \in {create_network_attachment_definition(outcome)} :
            /\ nad' = NadAfter(nad, r.calls)
            /\ ev' = [Started("create_nad") EXCEPT
                        !.lookup = outcome, !.calls = r.calls,
                        !.raised = r.raised \/ ClientRaised(nad, r.calls)]
            /\ prev' = Summary(ev)
            /\ UNCHANGED <<sts, canConnect, workload, plan, status>>

\* QuaggaOperatorCharm._on_remove: Kubernetes.delete_network_attachment_definition()
Remove ==
    \E outcome \in LookupOutcomes(nad) :
        \E r \in {delete_network_attachment_definition(outcome)} :
            /\ nad' = NadAfter(nad, r.calls)
            /\ sts' = StsAfter(sts, r.patches)
            /\ ev' = [Started("remove") EXCEPT
                        !.lookup = outcome, !.calls = r.calls,
                        !.patches = r.patches,
                        !.raised = r.raised \/ ClientRaised(nad, r.calls)]
            /\ prev' = Summary(ev)
            /\ UNCHANGED <<canConnect, workload, plan, status>>

\* Kubernetes.add_security_context_to_statefulset()
AddSecurityContext ==
    \E r \in {add_security_context_to_statefulset(sts, sts)} :
        /\ sts' = StsAfter(sts, r.patches)
        /\ ev' = [Started("add_security_context") EXCEPT
                    !.calls = r.calls, !.patches = r.patches, !.raised = r.raised]
        /\ prev' = Summary(ev)
        /\ UNCHANGED <<nad, canConnect, workload, plan, status>>

\* Kubernetes.add_multus_annotation_to_statefulset(interface_name, ips)
AddMultusAnnotation ==
    \E a \in MultusArgs :
        \E r \in {add_multus_annotation_to_statefulset(sts, sts, a[1], <<a[2]>>)} :
            /\ sts' = StsAfter(sts, r.patches)
            /\ ev' = [Started("add_multus") EXCEPT
                        !.multus = MultusCall(a[1], <<a[2]>>),
                        !.calls = r.calls, !.patches = r.patches, !.raised = r.raised]
            /\ prev' = Summary(ev)
            /\ UNCHANGED <<nad, canConnect, workload, plan, status>>

\* QuaggaOperatorCharm._on_quagga_pebble_ready
PebbleReady ==
    /\ workload.natRules < MaxNatRules
    /\ \E lostAt \in 1..5, failAt \in 1..5 :
        \* the first step that finds the container gone, and the first whose
        \* exec exits non-zero (5: none)
        \E h \in {on_quagga_pebble_ready(canConnect,
                                         [k \in 1..4 |-> k # lostAt],
                                         [k \in 1..4 |-> k # failAt])} :
          LET lost == h.raised /\ (h.execs = <<>> \/ h.execs[Len(h.execs)].ok)
          IN  /\ workload' = ApplyExecs(workload, h.execs)
              /\ canConnect' = (canConnect /\ ~lost)
              /\ plan' = IF h.addedLayer THEN AddLayer(plan, "quagga", pebble_layer)
                         ELSE plan
              /\ status' = IF h.setStatus = "none" THEN status ELSE h.setStatus
              /\ ev' = [Started("pebble_ready") EXCEPT
                          !.connected = canConnect,
                          !.lostStep = IF canConnect /\ lostAt <= 4 /\ lostAt <= failAt
                                       THEN lostAt ELSE 0,
                          !.execs = h.execs,
                          !.raised = h.raised, !.deferred = h.deferred,
                          !.setStatus = h.setStatus, !.addedLayer = h.addedLayer]
              /\ prev' = Summary(ev)
              /\ UNCHANGED <<nad, sts>>

\* The relation-changed event of the router relation.
RelationChanged ==
    \E name \in PeerNames \cup {Missing}, gateway \in PeerGateways \cup {Missing},
       hasRoutes \in BOOLEAN :
      \E routes \in IF hasRoutes THEN RouteLists ELSE {<<>>} :
        \* failAt: the first route whose exec exits non-zero (one past the
        \* last: none)
        \E failAt \in 1..(Len(routes) + 1) :
          \E h \in {on_relation_changed(RelationData(name, gateway, hasRoutes, routes),
                                        sts, [k \in 1..MaxRoutes |-> k # failAt])} :
            /\ sts' = StsAfter(sts, h.patches)
            /\ workload' = ApplyExecs(workload, h.execs)
            /\ ev' = [Started("relation_changed") EXCEPT
                        !.data = RelationData(name, gateway, hasRoutes, routes),
                        !.skipped = h.skipped, !.multus = h.multus,
                        !.ensured = h.ensured, !.order = h.order,
                        !.calls = h.calls, !.patches = h.patches,
                        !.execs = h.execs, !.raised = h.raised]
            /\ prev' = Summary(ev)
            /\ UNCHANGED <<nad, canConnect, plan, status>>

\* The workload container becomes reachable or unreachable.
ConnectivityChange ==
    /\ canConnect' = ~canConnect
    /\ UNCHANGED <<nad, sts, workload, plan, status, ev, prev>>

Next ==
    \/ CreateNetworkAttachmentDefinition
    \/ Remove
    \/ AddSecurityContext
    \/ AddMultusAnnotation

Spec == Init /\ [][Next]_vars

\* QuaggaOperatorCharm._on_install
Install ==
    \E outcome \in LookupOutcomes(nad) :
        \E h \in {on_install(outcome, nad, sts)} :
            /\ nad' = NadAfter(nad, h.calls)
            /\ sts' = StsAfter(sts, h.patches)
            /\ ev' = [Started("install") EXCEPT
                        !.lookup = outcome, !.invoked = h.invoked,
                        !.calls = h.calls, !.patches = h.patches,
                        !.raised = h.raised]
            /\ prev' = Summary(ev)
            /\ UNCHANGED <<canConnect, workload, plan, status>>

\* Installs and removals.
NextInstall ==
    \/ Install
    \/ Remove

SpecInstall == Init /\ [][NextInstall]_vars

----------------------------------------------------------------------------
(* The StatefulSet ensure operations one client call at a time, with       *)
(* another writer to the same StatefulSet.  ev.phase is where the          *)
(* operation in flight stands: "checked" after the get of its check,       *)
(* "fetched" after its own get, "done" when it has returned or raised.     *)
(* ev.checked and ev.fetched are the copies the two gets returned,         *)
(* ev.patchedOver the object the server held when the patch arrived and    *)
(* ev.patchedTo the object it held once it had answered.                   *)

\* what another writer adds to the networks list
ExternalDescriptor == [name |-> "other-net", interface |-> "net1", ips |-> <<>>]

\* The pod templates another writer can leave: ExternalDescriptor appended
\* to the networks list, or the charm container made privileged.
ExternalWrites(s) ==
    (IF s.annotations.hasKey /\ ~Contains(s.annotations.nets, ExternalDescriptor)
     THEN {[s EXCEPT !.annotations.nets = Append(@, ExternalDescriptor)]}
     ELSE {})
    \cup (IF ~s.containers[1].privileged
          THEN {[s EXCEPT !.containers[1].privileged = TRUE]}
          ELSE {})

\* What the server answers a patch built from the copy `fetched` when it
\* holds `stored`: it applies the merge; when the object changed since that
\* copy was read it may instead refuse it (the copy carries the
\* resourceVersion it was read at), and the client raises.
PatchOutcomes(stored, fetched) ==
    {"Applied"} \cup (IF stored # fetched THEN {"Conflict"} ELSE {})

\* the check of the operation recorded in e, on the copy s
Check(e, s) ==
    IF e.op = "add_multus"
    THEN annotation_is_added_to_statefulset(
            s, Annotation(e.multus.interface_name, e.multus.ips))
    ELSE security_context_is_patched(s)

\* the operation recorded in e, its two gets having returned checked and fetched
Ensure(e, checked, fetched) ==
    IF e.op = "add_multus"
    THEN add_multus_annotation_to_statefulset(
            checked, fetched, e.multus.interface_name, e.multus.ips)
    ELSE add_security_context_to_statefulset(checked, fetched)

\* An ensure operation starts: the get of its check.
EnsureCheck ==
    /\ ev.phase = "done"
    /\ \E m \in {NoMultusCall} \cup {MultusCall(a[1], <<a[2]>>) : a \in MultusArgs} :
        LET e == [Started(IF m.called THEN "add_multus" ELSE "add_security_context")
                    EXCEPT !.multus = m, !.checked = sts]
            r == Ensure(e, sts, sts)
        IN  /\ ev' = IF Check(e, sts) = "False"
                      THEN [e EXCEPT !.phase = "checked", !.calls = <<"get_sts">>]
                      ELSE [e EXCEPT !.calls = r.calls, !.raised = r.raised]
            /\ prev' = Summary(ev)
            /\ UNCHANGED <<nad, sts, canConnect, workload, plan, status>>

\* The operation's own get.
EnsureFetch ==
    /\ ev.phase = "checked"
    /\ \E r \in {Ensure(ev, ev.checked, sts)} :
        ev' = IF r.patches = <<>>
              THEN [ev EXCEPT !.phase = "done", !.fetched = sts,
                              !.calls = r.calls, !.raised = r.raised]
              ELSE [ev EXCEPT !.phase = "fetched", !.fetched = sts,
                              !.calls = <<"get_sts", "get_sts">>]
    /\ UNCHANGED <<nad, sts, canConnect, workload, plan, status, prev>>

\* The operation's patch.
EnsurePatch ==
    /\ ev.phase = "fetched"
    /\ \E r \in {Ensure(ev, ev.checked, ev.fetched)} :
        \E answer \in PatchOutcomes(sts, ev.fetched) :
            \E after \in {IF answer = "Applied" THEN StsAfter(sts, r.patches) ELSE sts} :
                /\ sts' = after
                /\ ev' = [ev EXCEPT !.phase = "done", !.calls = r.calls,
                                    !.patches = r.patches,
                                    !.raised = (answer = "Conflict"),
                                    !.patchedOver = sts, !.patchedTo = after]
    /\ UNCHANGED <<nad, canConnect, workload, plan, status, prev>>

\* Another writer changes the pod template.
ExternalWrite ==
    /\ \E w \in ExternalWrites(sts) : sts' = w
    /\ UNCHANGED <<nad, canConnect, workload, plan, status, ev, prev>>

\* A StatefulSet with both containers and the networks list.
InitRace ==
    /\ nad = "Present"
    /\ sts \in {StatefulSet(TRUE, <<CharmContainer, c>>, Annotations(TRUE, TRUE, n)) :
                    c \in {SecurityContext(TRUE, FALSE, FALSE, {}),
                           SecurityContext(TRUE, TRUE, TRUE, {"SYS_TIME"}),
                           SecurityContext(TRUE, TRUE, TRUE, {"NET_ADMIN"})},
                    n \in InitNets}
    /\ canConnect = TRUE
    /\ workload = InitWorkload
    /\ plan = {}
    /\ status = "unknown"
    /\ ev = NoEvent
    /\ prev = Summary(NoEvent)

NextRace ==
    \/ EnsureCheck
    \/ EnsureFetch
    \/ EnsurePatch
    \/ ExternalWrite

SpecRace == InitRace /\ [][NextRace]_vars

\* Container-ready events, with the container coming and going.
InitReady ==
    /\ nad = "Present"
    /\ sts = StatefulSet(TRUE, <<CharmContainer, SecurityContext(TRUE, TRUE, TRUE, {"NET_ADMIN"})>>,
                         Annotations(TRUE, TRUE, <<>>))
    /\ canConnect \in BOOLEAN
    /\ workload = InitWorkload
    /\ plan = {}
    /\ status = "unknown"
    /\ ev = NoEvent
    /\ prev = Summary(NoEvent)

NextReady ==
    \/ PebbleReady
    \/ ConnectivityChange

SpecReady == InitReady /\ [][NextReady]_vars

\* Relation-changed deliveries: the workload container patched, the
\* networks list missing or empty to start with.
InitRelation ==
    /\ nad = "Present"
    /\ sts \in {StatefulSet(TRUE, <<CharmContainer,
                                   SecurityContext(TRUE, TRUE, TRUE, {"NET_ADMIN"})>>, a) :
                    a \in {Annotations(TRUE, FALSE, <<>>), Annotations(TRUE, TRUE, <<>>)}}
    /\ canConnect = TRUE
    /\ workload = InitWorkload
    /\ plan = {}
    /\ status = "unknown"
    /\ ev = NoEvent
    /\ prev = Summary(NoEvent)

NextRelation == RelationChanged

SpecRelation == InitRelation /\ [][NextRelation]_vars

----------------------------------------------------------------------------
(* Properties *)

Creates(calls) == Sent(calls, "create_nad")

Deletes(calls) == Sent(calls, "delete_nad")

Patches(calls) == Sent(calls, "patch_sts")

\* The API server answered the lookup: the object, or not-found.
Answered(lookup) == lookup \in {"Found", "ApiNotFound"}

\* The lookup failed with something other than not-found.
FailedLookup(lookup) == lookup \in {"ApiOther", "Http404", "HttpOther"}

WorkloadSC(s) == s.containers[WorkloadContainer]

HasWorkloadSC(s) ==
    s.hasSpec /\ Len(s.containers) >= WorkloadContainer /\ WorkloadSC(s).hasSC

IsPatched(s) ==
    /\ HasWorkloadSC(s)
    /\ WorkloadSC(s).privileged
    /\ WorkloadSC(s).hasCaps
    /\ "NET_ADMIN" \in WorkloadSC(s).add

\* C2: add_security_context_to_statefulset sends no patch when the workload
\* container already has privileged = true and NET_ADMIN in its add-list; in
\* every other state of that security context (privileged false, NET_ADMIN
\* missing, or both) it sends exactly one patch whose object has
\* privileged = true and NET_ADMIN in the add-list, and a call that follows
\* a patching call sends none.
C2_SecurityContextIdempotent ==
    (ev.op = "add_security_context" /\ HasWorkloadSC(ev.preSts)) =>
        /\ IsPatched(ev.preSts) => Patches(ev.calls) = 0
        /\ ~IsPatched(ev.preSts) =>
                /\ Patches(ev.calls) = 1
                /\ Len(ev.patches) = 1
                /\ IsPatched(ev.patches[1])
                /\ IsPatched(sts)
        /\ (prev.op = "add_security_context" /\ Patches(prev.calls) = 1) =>
                Patches(ev.calls) = 0

\* the descriptor of a call of add_multus_annotation_to_statefulset
Descriptor(call) ==
    [name |-> "router-net", interface |-> call.interface_name, ips |-> call.ips]

HasNetworks(s) == s.hasSpec /\ s.annotations.hasMap /\ s.annotations.hasKey

Networks(s) == s.annotations.nets

\* C3: after any sequence of add_multus_annotation_to_statefulset calls the
\* networks list holds no descriptor more than once, and a call whose
\* descriptor is already in the list sends no patch.
C3_NoDuplicateDescriptor ==
    /\ NoDuplicates(Networks(sts))
    /\ (ev.op = "add_multus" /\ HasNetworks(ev.preSts)
            /\ Contains(Networks(ev.preSts), Descriptor(ev.multus))) =>
                Patches(ev.calls) = 0 /\ sts = ev.preSts

\* The same descriptor passed again after a call that appended it.
C3_Witness ==
    /\ ev.op = "add_multus" /\ prev.op = "add_multus"
    /\ Patches(prev.calls) = 1
    /\ Len(Networks(sts)) >= 2
    /\ Networks(sts)[Len(Networks(sts))] = Descriptor(ev.multus)
    /\ Patches(ev.calls) = 0

\* C4: the remove handler sends a delete only if the lookup reports
\* router-net present; two removals in a row send at most one delete in
\* total, and the second of two removals whose lookups the API server
\* answers sends nothing, changes nothing and raises nothing.
C4_DeleteOnlyWhenPresent ==
    ev.op = "remove" =>
        /\ Deletes(ev.calls) <= 1
        /\ Deletes(ev.calls) > 0 =>
                ev.lookup = "Found" /\ ev.preNad = "Present" /\ nad = "Absent"
        /\ prev.op = "remove" => Deletes(prev.calls) + Deletes(ev.calls) <= 1
        /\ (prev.op = "remove" /\ Answered(prev.lookup) /\ Answered(ev.lookup)) =>
                Deletes(ev.calls) = 0 /\ ~ev.raised /\ nad = ev.preNad

\* A removal that follows the removal that deleted router-net.
C4_Witness ==
    /\ ev.op = "remove" /\ ev.lookup = "ApiNotFound"
    /\ prev.op = "remove" /\ Deletes(prev.calls) = 1

\* C5: when the lookup of router-net fails with anything other than
\* not-found, the ensure operation raises and sends no create.
C5_LookupFailureSurfaced ==
    (ev.op = "create_nad" /\ FailedLookup(ev.lookup)) =>
        ev.raised /\ Creates(ev.calls) = 0

\* s is an initial segment of t
IsPrefix(s, t) == Len(s) <= Len(t) /\ \A k \in 1..Len(s) : s[k] = t[k]

Commands(execs) == [k \in 1..Len(execs) |-> execs[k].command]

AllOk(execs) == \A k \in 1..Len(execs) : execs[k].ok

\* every exec but the last exited zero
OnlyLastMayFail(execs) == \A k \in 1..Len(execs) : k < Len(execs) => execs[k].ok

\* C6: a container-ready event that finds the container reachable issues
\* its exec calls in the order enable-IP-forwarding, install-NAT-rule,
\* add-default-route, trap-signals, one per step and from the first step on
\* in every event; all four when it does not raise; when an exec exits
\* non-zero no later step is executed, the handler raises, and what the
\* earlier steps did to the workload stays.
C6_BootstrapOrder ==
    (ev.op = "pebble_ready" /\ ev.connected) =>
        /\ IsPrefix(Commands(ev.execs), BootstrapOrder)
        /\ OnlyLastMayFail(ev.execs)
        /\ ~AllOk(ev.execs) => ev.raised
        /\ ~ev.raised => Commands(ev.execs) = BootstrapOrder /\ AllOk(ev.execs)
        /\ (Len(ev.execs) >= 1 /\ ev.execs[1].ok) => workload.ipForward
        /\ (Len(ev.execs) >= 2 /\ ev.execs[2].ok) =>
                workload.natRules = ev.preWorkload.natRules + 1
        /\ (Len(ev.execs) >= 3 /\ ev.execs[3].ok) =>
                [network |-> "172.250.0.0/16", gateway |-> "192.168.250.3"]
                    \in workload.routes

\* A second ready event runs the sequence again from the first step; its
\* third exec exits non-zero after the first two were executed once more.
C6_Witness ==
    /\ ev.op = "pebble_ready" /\ ev.raised
    /\ Len(ev.execs) = 3 /\ ~ev.execs[3].ok
    /\ prev.op = "pebble_ready" /\ ~prev.raised /\ ~prev.deferred
    /\ workload.natRules = 2

\* C7: a container-ready event that finds the container unreachable defers
\* the event and sets the status to waiting; it issues no exec, adds no
\* layer and raises nothing.
C7_UnreachableDefers ==
    (ev.op = "pebble_ready" /\ ~ev.connected) =>
        /\ ev.deferred
        /\ ev.setStatus = "waiting" /\ status = "waiting"
        /\ ev.execs = <<>>
        /\ ~ev.addedLayer
        /\ ~ev.raised
        /\ workload = ev.preWorkload

C7_Witness ==
    ev.op = "pebble_ready" /\ ~ev.connected /\ ev.deferred /\ status = "waiting"

\* the service description of layer l
Services(l) == l.layer.services

\* C8: a container-ready event sets the status to active, and adds the
\* layer {override: replace, startup: enabled, command: sleep infinity},
\* only if all four bootstrap execs exited zero; an event that finds the
\* container unreachable or in which a step fails does neither.
C8_ActiveOnlyAfterBootstrap ==
    /\ ev.op = "pebble_ready" =>
        /\ (ev.setStatus = "active" \/ ev.addedLayer) =>
                /\ ev.connected /\ ~ev.raised
                /\ Commands(ev.execs) = BootstrapOrder /\ AllOk(ev.execs)
        /\ (~ev.connected \/ ev.raised \/ ~AllOk(ev.execs)) =>
                ev.setStatus # "active" /\ ~ev.addedLayer
        /\ (ev.connected /\ ~ev.raised) =>
                /\ ev.setStatus = "active" /\ status = "active"
                /\ ev.addedLayer
    /\ status = "active" => workload.ipForward /\ workload.natRules >= 1
    /\ \A l \in plan :
            /\ l.label = "quagga"
            /\ Services(l) = [quagga |-> [override |-> "replace",
                                          startup |-> "enabled",
                                          command |-> "sleep infinity"]]
            /\ workload.ipForward /\ workload.natRules >= 1
    /\ status = "active" => plan # {}

C8_Witness ==
    /\ ev.op = "pebble_ready" /\ ev.setStatus = "active" /\ ev.addedLayer
    /\ status = "active" /\ Cardinality(plan) = 1

\* C9: a relation-changed delivery without name or without gateway makes
\* no ensure-multus-annotation call and issues no route-add, whatever its
\* routes, and ends as a skip without raising; with both it calls
\* ensure-multus-annotation with interface = name and ips = [gateway], the
\* descriptor it appends is {router-net, name, [gateway]}, and without a
\* routes key it issues no route-add.
C9_NameAndGatewayGate ==
    ev.op = "relation_changed" =>
        IF ev.data.name = Missing \/ ev.data.gateway = Missing
        THEN /\ ~ev.multus.called
             /\ ev.calls = <<>> /\ ev.execs = <<>>
             /\ ev.skipped /\ ~ev.raised
             /\ sts = ev.preSts /\ workload = ev.preWorkload
        ELSE /\ ~ev.skipped
             /\ ev.multus = [called |-> TRUE, interface_name |-> ev.data.name,
                             ips |-> <<ev.data.gateway>>]
             /\ Patches(ev.calls) = 1 =>
                    /\ Networks(sts) = Append(Networks(ev.preSts),
                            [name |-> "router-net", interface |-> ev.data.name,
                             ips |-> <<ev.data.gateway>>])
             /\ ~ev.data.hasRoutes => ev.execs = <<>>

\* name and gateway without routes: the descriptor is appended, no exec.
C9_Witness ==
    /\ ev.op = "relation_changed"
    /\ ev.data.name = "eth1" /\ ev.data.gateway = "1.2.3.4/24" /\ ~ev.data.hasRoutes
    /\ Patches(ev.calls) = 1 /\ ev.execs = <<>> /\ ~ev.raised

\* the route-add commands of a routes list, in its order
RouteCommands(routes) ==
    [k \in 1..Len(routes) |->
        <<"ip", "route", "add", routes[k].network, "via", routes[k].gateway>>]

\* C10: the route-add execs of a relation-changed delivery are a prefix of
\* its routes, in their order and one exec per route: all of them when every
\* exec exits zero, and the routes up to and including the first failing
\* one otherwise, the failure raised.
C10_RoutesInOrder ==
    ev.op = "relation_changed" =>
        /\ IsPrefix(Commands(ev.execs), RouteCommands(ev.data.routes))
        /\ OnlyLastMayFail(ev.execs)
        /\ ~AllOk(ev.execs) => ev.raised
        /\ (ev.multus.called /\ ~ev.raised) =>
                Commands(ev.execs) = RouteCommands(ev.data.routes) /\ AllOk(ev.execs)
        /\ (ev.multus.called /\ ev.raised /\ ev.execs # <<>>) =>
                ~ev.execs[Len(ev.execs)].ok

\* Two routes in the order given: the first exec exits zero, the second fails.
C10_Witness ==
    /\ ev.op = "relation_changed" /\ Len(ev.data.routes) = 2
    /\ ev.data.routes[1].gateway = "192.168.250.4"
    /\ Len(ev.execs) = 2 /\ ev.execs[1].ok /\ ~ev.execs[2].ok /\ ev.raised

\* C11: in a relation-changed delivery every client call of the
\* ensure-multus-annotation call is made before the first route-add exec,
\* and a delivery in which that call was not made, or in which it raised,
\* issues no route-add exec.
C11_MultusBeforeRoutes ==
    ev.op = "relation_changed" =>
        /\ \A j, k \in 1..Len(ev.order) :
                (ev.order[j] = "exec" /\ ev.order[k] # "exec") => k < j
        /\ Len(ev.order) = Len(ev.calls) + Len(ev.execs)
        /\ ev.execs # <<>> => ev.multus.called /\ ev.ensured /\ ev.calls # <<>>
        /\ (~ev.multus.called \/ ~ev.ensured) => ev.execs = <<>> /\ workload = ev.preWorkload

\* The annotation is patched in and then two routes are added.
C11_Witness ==
    /\ ev.op = "relation_changed" /\ ev.ensured
    /\ ev.order = <<"get_sts", "get_sts", "patch_sts", "exec", "exec">>
    /\ ~ev.raised

\* C12: a call of add_multus_annotation_to_statefulset that finds the
\* annotation map of the pod template without the k8s.v1.cni.cncf.io/networks
\* key does not raise and sends exactly one patch, after which the list
\* under the key is exactly [descriptor].
C12_KeyInitialized ==
    (ev.op = "add_multus" /\ ev.preSts.hasSpec
        /\ ev.preSts.annotations.hasMap /\ ~ev.preSts.annotations.hasKey) =>
            /\ ~ev.raised
            /\ Patches(ev.calls) = 1 /\ Len(ev.patches) = 1
            /\ HasNetworks(sts)
            /\ Networks(sts) = <<Descriptor(ev.multus)>>

\* the client calls that concern the NetworkAttachmentDefinition
NadCalls == {"get_nad", "create_nad", "delete_nad"}

C14_MalformedStatefulSet ==
    /\ (ev.op = "add_security_context"
            /\ (~ev.preSts.hasSpec \/ Len(ev.preSts.containers) < 2)) =>
                /\ ev.raised
                /\ Patches(ev.calls) = 0 /\ ev.patches = <<>>
                /\ sts = ev.preSts
    /\ (ev.op = "add_multus" /\ ~ev.preSts.hasSpec) =>
                /\ ev.raised
                /\ Patches(ev.calls) = 0 /\ ev.patches = <<>>
                /\ sts = ev.preSts

\* The pod template has the charm container only.
C14_Witness ==
    /\ ev.op = "add_security_context"
    /\ ev.preSts.hasSpec /\ Len(ev.preSts.containers) = 1
    /\ ev.raised /\ Patches(ev.calls) = 0

\* C15: a StatefulSet ensure operation that sends a patch has made exactly
\* the calls get (the check), get, patch, in that order, and the object it
\* patches is the copy returned by the second get with the operation's own
\* change made to it, whatever the copy read by the check was.
C15_PatchFromRefetch ==
    (ev.phase = "done" /\ Patches(ev.calls) >= 1) =>
        /\ ev.calls = <<"get_sts", "get_sts", "patch_sts">>
        /\ Len(ev.patches) = 1
        /\ IF ev.op = "add_multus"
           THEN /\ ev.patches[1].containers = ev.fetched.containers
                /\ Networks(ev.patches[1]) =
                        Append(Networks(ev.fetched), Descriptor(ev.multus))
           ELSE /\ ev.patches[1].annotations = ev.fetched.annotations
                /\ ev.patches[1].containers[1] = ev.fetched.containers[1]
                /\ IsPatched(ev.patches[1])

\* The other writer changed the StatefulSet between the check and the
\* second get: the patch carries the change.
C15_Witness ==
    /\ ev.phase = "done" /\ ev.op = "add_multus" /\ Patches(ev.calls) = 1
    /\ ev.checked # ev.fetched
    /\ Len(Networks(ev.patches[1])) = Len(Networks(ev.checked)) + 2

\* C16: a call of add_multus_annotation_to_statefulset on an existing
\* networks list leaves the list as it was when the descriptor
\* {router-net, interface, ips} is an element of it, all three fields equal,
\* and otherwise leaves the list followed by that descriptor: entries are
\* never reordered or removed, and a descriptor that differs from an entry
\* in its ips alone is appended.
C16_InsertionOrder ==
    (ev.op = "add_multus" /\ HasNetworks(ev.preSts)) =>
        LET pre == Networks(ev.preSts)
            d == [name |-> "router-net", interface |-> ev.multus.interface_name,
                  ips |-> ev.multus.ips]
            known == \E k \in 1..Len(pre) :
                        /\ pre[k].name = d.name
                        /\ pre[k].interface = d.interface
                        /\ pre[k].ips = d.ips
        IN  /\ HasNetworks(sts)
            /\ IsPrefix(pre, Networks(sts))
            /\ Networks(sts) = IF known THEN pre ELSE pre \o <<d>>
            /\ ~ev.raised

\* eth1 with a second address is appended after eth1 with the first, and
\* after the entry the list started with.
C16_Witness ==
    /\ ev.op = "add_multus" /\ prev.op = "add_multus"
    /\ Len(Networks(sts)) = 3
    /\ Networks(sts)[1].interface = "eth2"
    /\ Networks(sts)[2] = [name |-> "router-net", interface |-> "eth1",
                           ips |-> <<"5.6.7.8/24">>]
    /\ Networks(sts)[3] = [name |-> "router-net", interface |-> "eth1",
                           ips |-> <<"1.2.3.4/24">>]
    /\ Len(Networks(ev.preSts)) = 2

\* C18: a removal sends no call but the get and the delete of the
\* NetworkAttachmentDefinition: it sends no patch, the StatefulSet (the
\* privileged flag, the add-list and the networks list of its pod template)
\* is after the removal what it was before, and the only change a removal
\* makes in the cluster is that router-net is gone.
C18_RemoveLeavesStatefulSet ==
    ev.op = "remove" =>
        /\ Patches(ev.calls) = 0 /\ ev.patches = <<>>
        /\ \A k \in 1..Len(ev.calls) : ev.calls[k] \in {"get_nad", "delete_nad"}
        /\ sts = ev.preSts
        /\ nad # ev.preNad =>
                Deletes(ev.calls) = 1 /\ ev.preNad = "Present" /\ nad = "Absent"

\* router-net is deleted; the StatefulSet keeps its patched security
\* context and its networks entry.
C18_Witness ==
    /\ ev.op = "remove" /\ Deletes(ev.calls) = 1 /\ nad = "Absent"
    /\ IsPatched(sts) /\ HasNetworks(sts) /\ Len(Networks(sts)) >= 1
    /\ prev.op \in {"add_security_context", "add_multus"} /\ Patches(prev.calls) = 1

\* C19: the object add_security_context_to_statefulset patches has, for
\* container 1, privileged = true and the add-list [NET_ADMIN] and nothing
\* else, whatever capabilities the add-list held before; container 0 and
\* the annotations are in it as they were read, and the stored StatefulSet
\* has them so after the patch.
C19_CapabilitiesReplaced ==
    (ev.op = "add_security_context" /\ Patches(ev.calls) = 1) =>
        /\ Len(ev.patches) = 1
        /\ Len(ev.patches[1].containers) = Len(ev.preSts.containers)
        /\ ev.patches[1].containers[2].privileged
        /\ ev.patches[1].containers[2].hasCaps
        /\ ev.patches[1].containers[2].add = {"NET_ADMIN"}
        /\ ev.patches[1].containers[1] = ev.preSts.containers[1]
        /\ ev.patches[1].annotations = ev.preSts.annotations
        /\ sts.containers[2].add = {"NET_ADMIN"}
        /\ sts.containers[1] = ev.preSts.containers[1]

\* SYS_TIME, in the add-list before the call, is not in it after.
C19_Witness ==
    /\ ev.op = "add_security_context" /\ Patches(ev.calls) = 1
    /\ ev.preSts.containers[2].hasCaps
    /\ "SYS_TIME" \in ev.preSts.containers[2].add
    /\ "SYS_TIME" \notin sts.containers[2].add
    /\ sts.containers[2].add = {"NET_ADMIN"}

\* C17: an ensure operation whose patch is applied after another writer
\* changed the pod template between the operation's second get and its
\* patch leaves the pod template as the patch carries it: the other
\* writer's change is gone.
C17_LostUpdate ==
    (ev.phase = "done" /\ Patches(ev.calls) = 1 /\ ~ev.raised
        /\ ev.patchedOver # ev.fetched) =>
            /\ ev.patchedTo.containers = ev.patches[1].containers
            /\ ev.patchedTo.annotations = ev.patches[1].annotations
            /\ ev.patchedTo # ev.patchedOver
            /\ (ev.op = "add_security_context" =>
                    Networks(ev.patchedTo) = Networks(ev.fetched))
            /\ (ev.op = "add_multus" =>
                    ev.patchedTo.containers = ev.fetched.containers)

\* The other writer's entry, appended to the networks list while a
\* security-context ensure was between its get and its patch, is lost.
C17_Witness ==
    /\ ev.phase = "done" /\ ev.op = "add_security_context"
    /\ Patches(ev.calls) = 1 /\ ~ev.raised
    /\ sts = ev.patchedTo
    /\ \E k \in 1..Len(Networks(ev.patchedOver)) :
            Networks(ev.patchedOver)[k] = ExternalDescriptor
    /\ \A k \in 1..Len(Networks(ev.fetched)) :
            Networks(ev.fetched)[k] # ExternalDescriptor
    /\ \A k \in 1..Len(Networks(sts)) : Networks(sts)[k] # ExternalDescriptor

\* C20: when the container, reachable at the handler's own check, is found
\* unreachable by bootstrap step k, the handler raises without deferring;
\* the execs issued are those of the steps before k, all of which exited
\* zero and whose effects on the workload stay; step k and the steps after
\* it issue none; the layer is not added and the status is not set.
C20_StepRechecksReachability ==
    (ev.op = "pebble_ready" /\ ev.connected /\ ev.lostStep > 0) =>
        /\ ev.raised /\ ~ev.deferred
        /\ Len(ev.execs) = ev.lostStep - 1
        /\ Commands(ev.execs) = SubSeq(BootstrapOrder, 1, ev.lostStep - 1)
        /\ AllOk(ev.execs)
        /\ ev.lostStep > 1 => workload.ipForward
        /\ ev.lostStep > 2 => workload.natRules = ev.preWorkload.natRules + 1
        /\ ev.lostStep > 3 =>
                [network |-> "172.250.0.0/16", gateway |-> "192.168.250.3"]
                    \in workload.routes
        /\ ~ev.addedLayer /\ ev.setStatus = "none"

\* The container is gone when the third step asks: two execs, no layer.
C20_Witness ==
    /\ ev.op = "pebble_ready" /\ ev.connected /\ ev.lostStep = 3
    /\ Len(ev.execs) = 2 /\ ev.raised
    /\ workload.ipForward /\ workload.natRules = 1
    /\ plan = {} /\ status = "unknown"

====
